---- MODULE Spec2Model ----
(***************************************************************************)
(* Model of the engine resource pool (app/model_pool/async_model_pool.py)  *)
(* and of the job scheduler (app/processors/task_processor.py with         *)
(* app/database/database_manager.py).                                      *)
(*                                                                         *)
(* The pool is modelled at the granularity of asyncio suspension points:   *)
(* one action is the code a coroutine runs between two awaits that really  *)
(* suspend (an uncontended asyncio.Lock, or a Queue.put/get that can       *)
(* proceed, does not suspend).                                             *)
(***************************************************************************)
EXTENDS Integers, Sequences, FiniteSets, TLC

\* ---------------------------------------------------------------- bounds
NumProcs == 2          \* coroutines calling into the pool
MaxCreate == 2         \* engine instances that can be loaded in one run
MaxRequested == 2      \* largest requested max_size / min_size
MaxJobs == 3           \* jobs submitted in one run
MaxConcurrent == 2     \* largest max_concurrent_tasks setting
MaxRetryLimit == 3     \* largest retry_limit of an AsyncHttpClient
MaxBodyLen == 2        \* longest response body, in characters
MaxUrlLen == 5         \* longest file_url, in characters
MaxMessageLen == 514   \* longest callback response body, in characters
CpuThreadChoices == {4, 6}   \* torch.get_num_threads() of the host
GpuChoices == {0, 1}         \* torch.cuda.device_count() of the host

Procs == 1..NumProcs
JobIds == 1..MaxJobs
Instances == 1..MaxCreate
NoProc == 0
NoModel == 0

Min(a, b) == IF a < b THEN a ELSE b
Max(a, b) == IF a > b THEN a ELSE b

VARIABLES
    \* ---- AsyncModelPool fields
    max_size,                 \* self.max_size (corrected capacity, also Queue maxsize)
    min_size,                 \* self.min_size
    init_with_max_pool_size,  \* self.init_with_max_pool_size
    pool,                     \* self.pool : asyncio.Queue of idle instances
    current_size,             \* self.current_size
    size_lock,                \* self.size_lock : asyncio.Lock
    loading_lock,             \* self.loading_lock : asyncio.Lock
    \* ---- per coroutine
    pc,                       \* where the coroutine is suspended
    strat,                    \* get_model's strategy argument
    ctx,                      \* caller of _create_and_put_model: "init" | "get"
    idx,                      \* instance_index / loop index i
    made,                     \* local `model` of _create_and_put_model
    held,                     \* instance get_model returned to the caller
    err,                      \* exception get_model raised to the caller
    \* ---- engine instances
    n_created,                \* instances loaded so far
    destroyed,                \* instances passed to _destroy_model
    init_returned,            \* an initialize_pool call has returned
    dev,                      \* device settings, and one instance's device and end
    unlocked,                 \* kinds of change made without holding size_lock
    \* ---- persistence layer (table `tasks`)
    tasks,                    \* job id -> row
    \* ---- TaskProcessor
    max_concurrent_tasks,     \* self.max_concurrent_tasks
    fetch_queue,              \* self.fetch_queue : number of "fetch" requests
    task_processing_queue,    \* self.task_processing_queue : batches
    shutdown_event,           \* self.shutdown_event
    loop_stopped,             \* self.loop has stopped running
    fpc,                      \* fetch_task_worker's position
    fbatch,                   \* fetch_task_worker's local `tasks`
    ppc,                      \* process_tasks_worker's position
    db_failed,                \* fetch_task_worker's last database call failed
    \* ---- CallbackService
    notified,                 \* task_callback_notification calls and how they ended
    \* ---- AsyncModelPool class and construction
    ctor,                     \* _initialized, engine, host and the last __init__'s outcome
    \* ---- AsyncHttpClient
    retry_limit,              \* self.retry_limit
    base_backoff,             \* self.base_backoff
    call,                     \* the frame of the fetch_data call
    \* ---- API routes
    api                       \* the last request to task_create / task_result and its answer

poolVars == <<max_size, min_size, init_with_max_pool_size, pool, current_size,
              size_lock, loading_lock, pc, strat, ctx, idx, made, held, err,
              n_created, destroyed, init_returned, dev, unlocked, ctor>>

schedVars == <<tasks, max_concurrent_tasks, fetch_queue, task_processing_queue,
               shutdown_event, loop_stopped, fpc, fbatch, ppc, db_failed,
               notified>>

httpVars == <<retry_limit, base_backoff, call>>

apiVars == <<api>>

vars == <<poolVars, schedVars, httpVars, apiVars>>

\* ------------------------------------------------------------ exceptions
NoErr == [type |-> "none", msg |-> ""]
PoolExhausted == [type |-> "RuntimeError",
                  msg |-> "Model pool exhausted, and all instances are currently in use."]
WaitTimeout == [type |-> "TimeoutError", msg |-> ""]
Unexpected == [type |-> "RuntimeError",
               msg |-> "Unexpected error occurred while retrieving a model instance."]

\* get_model's outer `except Exception`: whatever was raised inside the try
\* block leaves get_model as the generic RuntimeError.
get_model_except(e) == Unexpected

\* ----------------------------------------------------------- construction
ValidEngines == {"openai_whisper", "faster_whisper"}   \* l.428, l.442
Engines == ValidEngines \cup {"whisper_cpp"}           \* settings...engine: any str
HostGpuChoices == {0, 1, 2}       \* torch.cuda.device_count() of any host
InstancesPerGpuChoices == {1, 2}  \* max_instances_per_gpu argument

\* the class before any AsyncModelPool(...) call on a host with num_gpus
\* accelerators and num_cpu_threads threads: no instance attribute is set.
\* requested / requested_per_gpu: max_size and max_instances_per_gpu of the
\* call that got past the _initialized test last; returned_size: current_size
\* of the object the last call returned; raised: what the last call raised
NotConstructed(num_gpus, num_cpu_threads) ==
    [initialized |-> FALSE, called |-> FALSE, engine |-> "unset",
     per_gpu_set |-> FALSE, max_instances_per_gpu |-> 0,
     num_gpus |-> num_gpus, num_cpu_threads |-> num_cpu_threads,
     requested |-> 0, requested_per_gpu |-> 0, returned_size |-> 0,
     raised |-> "none"]

\* the attributes one successful AsyncModelPool(...) leaves on the instance
Constructed(engine, num_gpus, num_cpu_threads, requested, max_instances_per_gpu) ==
    [NotConstructed(num_gpus, num_cpu_threads) EXCEPT
        !.initialized = TRUE, !.called = TRUE, !.engine = engine,
        !.per_gpu_set = TRUE, !.max_instances_per_gpu = max_instances_per_gpu,
        !.requested = requested, !.requested_per_gpu = max_instances_per_gpu]

\* --------------------------------------------------------- configuration
get_optimal_max_size(requested, num_gpus, num_cpu_threads, max_instances_per_gpu) ==
    LET m == IF requested < 1 THEN 1 ELSE requested IN
    IF num_gpus = 0
      THEN (IF num_cpu_threads <= 4 THEN 1 ELSE Min(m, num_cpu_threads \div 2))
      ELSE IF num_gpus = 1
        THEN 1
        ELSE Min(m, num_gpus * max_instances_per_gpu)

instances_to_create == IF init_with_max_pool_size THEN max_size ELSE min_size

\* the instance attributes __init__ reads or writes
CtorSt == [ctor |-> ctor, max_size |-> max_size, min_size |-> min_size,
           init_with_max_pool_size |-> init_with_max_pool_size,
           pool |-> pool, current_size |-> current_size]

\* mutant: __init__ without the _initialized test
AsyncModelPool_init_again(s, a) ==
    [s EXCEPT !.ctor = [@ EXCEPT !.called = TRUE, !.initialized = TRUE,
                                 !.engine = a.engine, !.per_gpu_set = TRUE,
                                 !.max_instances_per_gpu = a.max_instances_per_gpu,
                                 !.requested = a.max_size,
                                 !.requested_per_gpu = a.max_instances_per_gpu,
                                 !.returned_size = 0, !.raised = "none"],
              !.min_size = a.min_size,
              !.max_size = get_optimal_max_size(a.max_size, s.ctor.num_gpus,
                                                s.ctor.num_cpu_threads,
                                                a.max_instances_per_gpu),
              !.init_with_max_pool_size = a.init_with_max_pool_size,
              !.pool = <<>>,
              !.current_size = 0]

\* AsyncModelPool(...): __new__ (l.25-30) hands out the one instance of the
\* class, __init__ (l.83-122) runs on it.
\*   l.83-84  an initialized instance is returned as it is
\*   l.86-87  min_size > max_size: ValueError, nothing set
\*   l.92     engine stored, not validated
\*   l.112    min_size
\*   l.113    get_optimal_max_size(max_size) runs BEFORE l.114 assigns
\*            self.max_instances_per_gpu, which its multi-GPU branch reads
\*            (l.211): AttributeError with two or more accelerators
\*   l.114-122 the remaining attributes, _initialized = True
AsyncModelPool_init(s, a) ==
    IF s.ctor.initialized
      THEN [s EXCEPT !.ctor = [@ EXCEPT !.returned_size = s.current_size,
                                        !.raised = "none"]]
    ELSE LET c == [s.ctor EXCEPT !.called = TRUE, !.requested = a.max_size,
                                 !.requested_per_gpu = a.max_instances_per_gpu]
         IN
         IF a.min_size > a.max_size
           THEN [s EXCEPT !.ctor = [c EXCEPT !.raised = "ValueError"]]
         ELSE IF c.num_gpus >= 2 /\ ~c.per_gpu_set
           THEN [s EXCEPT !.ctor = [c EXCEPT !.engine = a.engine,
                                             !.raised = "AttributeError"],
                          !.min_size = a.min_size]
         ELSE [s EXCEPT !.ctor = [c EXCEPT !.initialized = TRUE,
                                           !.engine = a.engine,
                                           !.per_gpu_set = TRUE,
                                           !.max_instances_per_gpu =
                                               a.max_instances_per_gpu,
                                           !.returned_size = 0,
                                           !.raised = "none"],
                        !.min_size = a.min_size,
                        !.max_size = get_optimal_max_size(
                                         a.max_size, c.num_gpus,
                                         c.num_cpu_threads,
                                         c.max_instances_per_gpu),
                        !.init_with_max_pool_size = a.init_with_max_pool_size,
                        !.pool = <<>>,
                        !.current_size = 0]

\* the keyword arguments of AsyncModelPool(...) the model follows
CtorArgs ==
    [engine : Engines, min_size : 0..MaxRequested, max_size : 0..MaxRequested,
     max_instances_per_gpu : InstancesPerGpuChoices,
     init_with_max_pool_size : BOOLEAN]

\* ------------------------------------------------------------- asyncio
FreeLock == [holder |-> NoProc, waiters |-> <<>>]
LockFree(l) == l.holder = NoProc
\* p was handed the lock by release() (a coroutine that queued for a lock it
\* holds itself stays in waiters and is never woken: asyncio.Lock is not
\* reentrant)
LockGrantedTo(l, p) ==
    /\ l.holder = p
    /\ \A i \in 1..Len(l.waiters) : l.waiters[i] # p
Enqueue(l, p) == [l EXCEPT !.waiters = Append(@, p)]
Take(l, p) == [l EXCEPT !.holder = p]
\* release(): wakes the first waiter; later acquirers queue behind it
Release(l) ==
    IF l.waiters = <<>> THEN FreeLock
    ELSE [holder |-> Head(l.waiters), waiters |-> Tail(l.waiters)]

QueueFull(q) == Len(q) >= max_size
QueuePut(q, m) == Append(q, m)
QueueFront(q) == Head(q)
\* mutant: get() hands out the head without removing it
QueueGet_keeps(q) == q
QueueGet(q) == Tail(q)

\* ------------------------------------------------------ state as a record
St == [pool |-> pool, current_size |-> current_size, size_lock |-> size_lock,
       loading_lock |-> loading_lock, pc |-> pc, strat |-> strat, ctx |-> ctx,
       idx |-> idx, made |-> made, held |-> held, err |-> err,
       n_created |-> n_created, destroyed |-> destroyed,
       init_returned |-> init_returned, unlocked |-> unlocked]

Becomes(s) ==
    /\ pool' = s.pool
    /\ current_size' = s.current_size
    /\ size_lock' = s.size_lock
    /\ loading_lock' = s.loading_lock
    /\ pc' = s.pc
    /\ strat' = s.strat
    /\ ctx' = s.ctx
    /\ idx' = s.idx
    /\ made' = s.made
    /\ held' = s.held
    /\ err' = s.err
    /\ n_created' = s.n_created
    /\ destroyed' = s.destroyed
    /\ init_returned' = s.init_returned
    /\ unlocked' = s.unlocked
    /\ UNCHANGED <<max_size, min_size, init_with_max_pool_size, dev, ctor>>
    /\ UNCHANGED <<schedVars, httpVars, apiVars>>

\* coroutine p changes current_size or the idle queue (kind says how) in
\* state s: the change is remembered when p does not hold size_lock
Changes(s, p, kind) ==
    IF s.size_lock.holder = p THEN s ELSE [s EXCEPT !.unlocked = @ \cup {kind}]

\* ------------------------------------------------------------ get_model
\* What the caller of get_model receives once pool.get() produced m.
\* "existing" (l.256) and the default branch (l.284) return the model;
\* "dynamic" (l.278) assigns it and falls off the end of the function.
get_model_deliver(s, p, m) ==
    IF s.strat[p] = "dynamic"
      THEN [s EXCEPT !.pc[p] = "got_none", !.strat[p] = "none"]
      ELSE [s EXCEPT !.pc[p] = "holding", !.held[p] = m, !.strat[p] = "none"]

get_model_raise(s, p, e) ==
    [s EXCEPT !.pc[p] = "raised", !.err[p] = get_model_except(e), !.strat[p] = "none"]

\* l.267-268 inside `async with self.size_lock`: take the head, leave the lock
get_model_take_new(s, p) ==
    LET m == QueueFront(s.pool) IN
    [Changes(s, p, "get") EXCEPT !.pool = QueueGet(@), !.size_lock = Release(@),
              !.pc[p] = "holding", !.held[p] = m, !.strat[p] = "none",
              !.ctx[p] = "none", !.idx[p] = 0]

\* ------------------------------------------------- _create_and_put_model
\* the coroutine that awaited _create_and_put_model continues
create_return(s, p) ==
    LET s1 == [s EXCEPT !.made[p] = NoModel] IN
    IF s1.ctx[p] = "init"
      THEN IF s1.idx[p] + 1 < instances_to_create
             THEN [s1 EXCEPT !.idx[p] = @ + 1, !.pc[p] = "c_thread"]
             ELSE [s1 EXCEPT !.loading_lock = Release(@), !.pc[p] = "idle",
                             !.idx[p] = 0, !.ctx[p] = "none",
                             !.init_returned = TRUE]
      ELSE IF s1.pool # <<>>
             THEN get_model_take_new(s1, p)
             ELSE [s1 EXCEPT !.pc[p] = "g_get"]

\* l.461-462 with size_lock held by p
create_inc(s, p) ==
    create_return([Changes(s, p, "inc") EXCEPT !.current_size = @ + 1,
                                              !.size_lock = Release(@)], p)

\* l.461 `async with self.size_lock`
create_lock(s, p) ==
    IF LockFree(s.size_lock)
      THEN create_inc([s EXCEPT !.size_lock = Take(@, p)], p)
      ELSE [s EXCEPT !.size_lock = Enqueue(@, p), !.pc[p] = "c_inc"]

\* l.458 `await self.pool.put(model)` once the queue has room
create_put(s, p) ==
    create_lock([Changes(s, p, "put") EXCEPT !.pool = QueuePut(@, s.made[p])], p)

\* l.431/444 returned a loaded engine instance m
create_loaded(s, p, m) ==
    LET s1 == [s EXCEPT !.made[p] = m, !.n_created = @ + 1] IN
    IF QueueFull(s1.pool) THEN [s1 EXCEPT !.pc[p] = "c_put"] ELSE create_put(s1, p)

\* ------------------------------------------------------------ get_model
\* mutant: the capacity test is <= instead of <
get_model_on_timeout_le(s, p) ==
    IF s.current_size <= max_size
      THEN [s EXCEPT !.pc[p] = "c_thread", !.ctx[p] = "get",
                     !.idx[p] = s.current_size]
      ELSE [s EXCEPT !.size_lock = Release(@), !.pc[p] = "raised",
                     !.err[p] = Unexpected, !.strat[p] = "none"]

\* l.259-274 with size_lock held by p
get_model_on_timeout(s, p) ==
    IF s.current_size < max_size
      THEN [s EXCEPT !.pc[p] = "c_thread", !.ctx[p] = "get",
                     !.idx[p] = s.current_size]
      ELSE get_model_raise([s EXCEPT !.size_lock = Release(@)], p, PoolExhausted)

\* asyncio.TimeoutError out of wait_for
get_model_timeout(s, p) ==
    IF s.strat[p] = "existing"
      THEN IF LockFree(s.size_lock)
             THEN get_model_on_timeout([s EXCEPT !.size_lock = Take(@, p)], p)
             ELSE [s EXCEPT !.size_lock = Enqueue(@, p), !.pc[p] = "g_lock"]
      ELSE get_model_raise(s, p, WaitTimeout)

\* --------------------------------------------------------- return_model
\* mutant: the counter is not updated
destroy_locked_keeps(s, p) ==
    [s EXCEPT !.size_lock = Release(@), !.pc[p] = "idle"]

\* l.512-513 with size_lock held by p
destroy_locked(s, p) ==
    [Changes(s, p, "dec") EXCEPT !.current_size = Max(0, @ - 1),
                                 !.size_lock = Release(@), !.pc[p] = "idle"]

\* _destroy_model(model)
destroy_model(s, p, m) ==
    LET s1 == [s EXCEPT !.destroyed = @ \cup {m}] IN
    IF LockFree(s1.size_lock)
      THEN destroy_locked([s1 EXCEPT !.size_lock = Take(@, p)], p)
      ELSE [s1 EXCEPT !.size_lock = Enqueue(@, p), !.pc[p] = "d_lock"]

return_model(s, p) ==
    LET m == s.held[p]
        s1 == [s EXCEPT !.held[p] = NoModel] IN
    IF QueueFull(s1.pool)
      THEN destroy_model(s1, p, m)
      ELSE [Changes(s1, p, "put") EXCEPT !.pool = QueuePut(@, m), !.pc[p] = "idle"]

\* ------------------------------------------------------ initialize_pool
\* l.151-171 with loading_lock held by p
initialize_pool_locked(s, p) ==
    IF s.current_size >= min_size \/ instances_to_create <= 0
      THEN [s EXCEPT !.loading_lock = Release(@), !.pc[p] = "idle",
                     !.init_returned = TRUE]
      ELSE [s EXCEPT !.pc[p] = "c_thread", !.ctx[p] = "init", !.idx[p] = 0]

initialize_pool(s, p) ==
    IF LockFree(s.loading_lock)
      THEN initialize_pool_locked([s EXCEPT !.loading_lock = Take(@, p)], p)
      ELSE [s EXCEPT !.loading_lock = Enqueue(@, p), !.pc[p] = "i_load"]

\* ------------------------------------------------------- device allocation
\* values of the settings faster_whisper_device / openai_whisper_device;
\* "None" is Python's None
DeviceChoices == {"cpu", "cuda", "auto", "None"}

\* config.py l.37, l.55: the defaults; no instance followed yet
DefaultDevices ==
    [fast_whisper_device |-> "auto", openai_whisper_device |-> "None",
     stage |-> "none", resides |-> "none", cache_cleared |-> FALSE]

\* l.325-359: allocation["device"]; torch.cuda.is_available() is num_gpus > 0
allocate_device(device_type, model_type, num_gpus) ==
    LET detected == IF num_gpus > 0 THEN "cuda" ELSE "cpu"
        d == IF model_type = "faster_whisper" /\ device_type = "auto"
               THEN detected
             ELSE IF model_type = "openai_whisper" /\ device_type = "None"
               THEN detected
             ELSE device_type
    IN  IF d = "cuda" /\ num_gpus > 0 THEN "cuda" ELSE "cpu"

\* l.403-410, l.431-449: the device the engine instance is loaded on
create_device(d, engine, num_gpus) ==
    allocate_device(IF engine = "faster_whisper" THEN d.fast_whisper_device
                                                 ELSE d.openai_whisper_device,
                    engine, num_gpus)

\* l.496-501: whether torch.cuda.empty_cache() is called; the device is
\* recomputed from self.fast_whisper_device for either engine
destroy_clears_cache(d, engine, num_gpus) ==
    /\ allocate_device(d.fast_whisper_device, engine, num_gpus) = "cuda"
    /\ num_gpus = 1

\* _create_and_put_model loads the instance the model follows
LoadInstance ==
    /\ dev.stage # "loaded"
    /\ dev' = [dev EXCEPT !.stage = "loaded",
                          !.resides = create_device(dev, ctor.engine, ctor.num_gpus),
                          !.cache_cleared = FALSE]
    /\ UNCHANGED <<max_size, min_size, init_with_max_pool_size, pool,
                   current_size, size_lock, loading_lock, pc, strat, ctx, idx,
                   made, held, err, n_created, destroyed, init_returned,
                   unlocked, ctor>>
    /\ UNCHANGED <<schedVars, httpVars, apiVars>>

\* _destroy_model(model) for that instance
DestroyInstance ==
    /\ dev.stage = "loaded"
    /\ dev' = [dev EXCEPT !.stage = "destroyed",
                          !.cache_cleared =
                              destroy_clears_cache(dev, ctor.engine, ctor.num_gpus)]
    /\ UNCHANGED <<max_size, min_size, init_with_max_pool_size, pool,
                   current_size, size_lock, loading_lock, pc, strat, ctx, idx,
                   made, held, err, n_created, destroyed, init_returned,
                   unlocked, ctor>>
    /\ UNCHANGED <<schedVars, httpVars, apiVars>>

\* ================================================================ actions
\* some code evaluates AsyncModelPool(**a)
Construct(a) ==
    /\ LET s == AsyncModelPool_init(CtorSt, a) IN
         /\ ctor' = s.ctor
         /\ max_size' = s.max_size
         /\ min_size' = s.min_size
         /\ init_with_max_pool_size' = s.init_with_max_pool_size
         /\ pool' = s.pool
         /\ current_size' = s.current_size
    /\ UNCHANGED <<size_lock, loading_lock, pc, strat, ctx, idx, made, held,
                   err, n_created, destroyed, init_returned, dev, unlocked>>
    /\ UNCHANGED <<schedVars, httpVars, apiVars>>

InitializePool(p) ==
    /\ ctor.initialized
    /\ pc[p] = "idle"
    /\ Becomes(initialize_pool(St, p))

InitializePoolGranted(p) ==
    /\ pc[p] = "i_load"
    /\ LockGrantedTo(loading_lock, p)
    /\ Becomes(initialize_pool_locked(St, p))

Strategies == {"existing", "dynamic", "default"}

\* get_model(timeout, strategy): pool.get() returns at once when an instance
\* is idle, otherwise the caller waits inside wait_for
GetModel(p) ==
    /\ ctor.initialized
    /\ pc[p] = "idle"
    /\ \E st \in Strategies :
         LET s1 == [St EXCEPT !.strat[p] = st, !.err[p] = NoErr] IN
         IF pool # <<>>
           THEN Becomes(get_model_deliver(
                            [Changes(s1, p, "get") EXCEPT !.pool = QueueGet(@)],
                            p, QueueFront(pool)))
           ELSE Becomes([s1 EXCEPT !.pc[p] = "g_wait"])

\* a waiting pool.get() is woken by a put
GetModelWoken(p) ==
    /\ pc[p] = "g_wait"
    /\ pool # <<>>
    /\ Becomes(get_model_deliver([Changes(St, p, "get") EXCEPT !.pool = QueueGet(@)],
                                 p, QueueFront(pool)))

GetModelTimeout(p) ==
    /\ pc[p] = "g_wait"
    /\ Becomes(get_model_timeout(St, p))

\* size_lock.release() woke p, the first waiter: p now owns the lock and
\* continues where it waited (l.259 get_model, l.461 _create_and_put_model,
\* l.512 _destroy_model)
SizeLockGranted(p) ==
    /\ pc[p] \in {"g_lock", "c_inc", "d_lock"}
    /\ LockGrantedTo(size_lock, p)
    /\ Becomes(CASE pc[p] = "g_lock" -> get_model_on_timeout(St, p)
                 [] pc[p] = "c_inc" -> create_inc(St, p)
                 [] pc[p] = "d_lock" -> destroy_locked(St, p))

\* l.267 `await self.pool.get()` woken by a put
GetModelTakeNew(p) ==
    /\ pc[p] = "g_get"
    /\ pool # <<>>
    /\ Becomes(get_model_take_new(St, p))

\* l.428-450: the engine's constructor returned an instance (an engine name
\* that is neither of the two raises ValueError at l.453 instead)
CreateLoaded(p) ==
    /\ pc[p] = "c_thread"
    /\ ctor.engine \in ValidEngines
    /\ n_created < MaxCreate
    /\ Becomes(create_loaded(St, p, n_created + 1))

\* the engine constructor raised; l.480 logs and returns
CreateFailed(p) ==
    /\ pc[p] = "c_thread"
    /\ Becomes(create_return(St, p))

CreatePutWoken(p) ==
    /\ pc[p] = "c_put"
    /\ ~QueueFull(pool)
    /\ Becomes(create_put(St, p))

ReturnModel(p) ==
    /\ pc[p] = "holding"
    /\ Becomes(return_model(St, p))

\* the caller of get_model handles None / the RuntimeError and goes on
CallerContinues(p) ==
    /\ pc[p] \in {"got_none", "raised"}
    /\ Becomes([St EXCEPT !.pc[p] = "idle", !.err[p] = NoErr])

\* ==================================================== persistence layer
\* a nullable column that was never written
NULL == "NULL"

NoTask == [status |-> "absent", output_url |-> FALSE, callback_url |-> FALSE,
           callback_status_code |-> NULL, callback_message |-> NULL,
           callback_time |-> NULL, result |-> NULL, error_message |-> NULL]

\* Task(callback_url=..., ...) with the column default status =
\* TaskStatus.queued; callback_url is TRUE when the submitter gave a URL
NewTask(callback_url) ==
    [status |-> "queued", output_url |-> FALSE, callback_url |-> callback_url,
     callback_status_code |-> NULL, callback_message |-> NULL,
     callback_time |-> NULL, result |-> NULL, error_message |-> NULL]

Exists(t, id) == t[id].status # "absent"

\* the primary key the database gives the next inserted row
NextId(t) == Cardinality({j \in JobIds : Exists(t, j)}) + 1

RECURSIVE SeqsOver(_, _)
\* the sequences of n distinct elements of S
SeqsOver(S, n) ==
    IF n = 0 THEN {<<>>}
    ELSE UNION {{<<x>> \o r : r \in SeqsOver(S \ {x}, n - 1)} : x \in S}

\* select(Task).where(Task.status == queued).limit(n): the statement has no
\* ORDER BY, so the rows come back in an order the database chooses
get_queued_tasks(t, limit) ==
    LET queued == {j \in JobIds : t[j].status = "queued"} IN
    SeqsOver(queued, Min(limit, Cardinality(queued)))

\* session.get(Task, task_id); setattr(task, key, value); session.commit()
update_task(t, id, key, value) ==
    IF ~Exists(t, id) THEN t ELSE [t EXCEPT ![id][key] = value]

\* the length callback_message is cut to (database_manager.py l.155)
CallbackMessageMax == 512

\* text[:n]
Prefix(text, n) == SubSeq(text, 1, Min(Len(text), n))

\* mutant: the message is stored as it came
update_task_callback_status_whole(t, id, callback_status_code, callback_message) ==
    IF ~Exists(t, id) THEN t
    ELSE [t EXCEPT ![id].callback_status_code = callback_status_code,
                   ![id].callback_message =
                       IF callback_message # <<>> THEN callback_message ELSE NULL,
                   ![id].callback_time = "now"]

\* database_manager.py l.149-158: session.get; the three columns are set, the
\* message cut to its first 512 characters (an empty one is stored as None)
update_task_callback_status(t, id, callback_status_code, callback_message) ==
    IF ~Exists(t, id) THEN t
    ELSE [t EXCEPT ![id].callback_status_code = callback_status_code,
                   ![id].callback_message =
                       IF callback_message # <<>>
                         THEN Prefix(callback_message, CallbackMessageMax)
                         ELSE NULL,
                   ![id].callback_time = "now"]

\* ========================================================== TaskProcessor
\* mutant: the claim cycle writes a terminal status
fetch_mark_completed(t, id) == update_task(t, id, "status", "completed")

\* l.152-154: the status fetch_task_worker writes on the first job of the batch
fetch_mark(t, id) == update_task(t, id, "status", "processing")

SchedRunning == ~loop_stopped

\* ---- submission (WhisperService.create_whisper_task, request thread)
\* l.139-152: session.add(task); session.commit()
CreateTask(callback_url) ==
    /\ NextId(tasks) \in JobIds
    /\ tasks' = [tasks EXCEPT ![NextId(tasks)] = NewTask(callback_url)]
    /\ UNCHANGED <<max_concurrent_tasks, fetch_queue, task_processing_queue,
                   shutdown_event, loop_stopped, fpc, fbatch, ppc>>
    /\ UNCHANGED <<poolVars, httpVars, apiVars, db_failed, notified>>

\* l.153-156: task.output_url = ...; session.commit()
SetOutputUrl(j) ==
    /\ Exists(tasks, j)
    /\ ~tasks[j].output_url
    /\ tasks' = [tasks EXCEPT ![j].output_url = TRUE]
    /\ UNCHANGED <<max_concurrent_tasks, fetch_queue, task_processing_queue,
                   shutdown_event, loop_stopped, fpc, fbatch, ppc>>
    /\ UNCHANGED <<poolVars, httpVars, apiVars, db_failed, notified>>

\* ---- process_tasks_worker
\* mutant: the worker asks again without waiting for the batch
process_tasks_request_no_wait(stop) ==
    IF stop THEN [ppc |-> "p_done", put |-> 0] ELSE [ppc |-> "p_loop", put |-> 1]

\* l.120-123: where the worker goes from the loop test and how many requests
\* it puts on fetch_queue
process_tasks_request(stop) ==
    IF stop THEN [ppc |-> "p_done", put |-> 0] ELSE [ppc |-> "p_wait", put |-> 1]

\* mutant: an empty batch sends the worker straight back to the loop test
process_tasks_batch_polls(b) == IF b = <<>> THEN "p_loop" ELSE "p_sleep"

\* l.125-135: where the worker goes with the batch b it received. An empty
\* batch sleeps (l.129); a non-empty one calls self._process_multiple_tasks,
\* which TaskProcessor does not define: the AttributeError is caught at l.131
\* and the worker sleeps (l.135)
process_tasks_batch(b) == "p_sleep"

\* l.120-123: loop test, fetch_queue.put("fetch"), then wait for the batch
ProcessRequest ==
    /\ SchedRunning
    /\ ppc = "p_loop"
    /\ ppc' = process_tasks_request(shutdown_event).ppc
    /\ fetch_queue' = fetch_queue + process_tasks_request(shutdown_event).put
    /\ UNCHANGED <<tasks, max_concurrent_tasks, task_processing_queue,
                   shutdown_event, loop_stopped, fpc, fbatch>>
    /\ UNCHANGED <<poolVars, httpVars, apiVars, db_failed, notified>>

\* l.123-135: the batch arrives
ProcessBatch ==
    /\ SchedRunning
    /\ ppc = "p_wait"
    /\ task_processing_queue # <<>>
    /\ task_processing_queue' = Tail(task_processing_queue)
    /\ ppc' = process_tasks_batch(Head(task_processing_queue))
    /\ UNCHANGED <<tasks, max_concurrent_tasks, fetch_queue, shutdown_event,
                   loop_stopped, fpc, fbatch>>
    /\ UNCHANGED <<poolVars, httpVars, apiVars, db_failed, notified>>

\* asyncio.sleep(task_status_check_interval) is over
ProcessWake ==
    /\ SchedRunning
    /\ ppc = "p_sleep"
    /\ ppc' = "p_loop"
    /\ UNCHANGED <<tasks, max_concurrent_tasks, fetch_queue, task_processing_queue,
                   shutdown_event, loop_stopped, fpc, fbatch>>
    /\ UNCHANGED <<poolVars, httpVars, apiVars, db_failed, notified>>

\* ---- fetch_task_worker
\* l.143-145: loop test, then fetch_queue.get()
FetchRequest ==
    /\ SchedRunning
    /\ fpc = "f_loop"
    /\ IF shutdown_event
         THEN /\ fpc' = "f_done"
              /\ UNCHANGED fetch_queue
         ELSE IF fetch_queue > 0
           THEN /\ fpc' = "f_query"
                /\ fetch_queue' = fetch_queue - 1
           ELSE /\ fpc' = "f_wait"
                /\ UNCHANGED fetch_queue
    /\ UNCHANGED <<tasks, max_concurrent_tasks, task_processing_queue,
                   shutdown_event, loop_stopped, fbatch, ppc>>
    /\ UNCHANGED <<poolVars, httpVars, apiVars, db_failed, notified>>

\* l.145: fetch_queue.get() woken by a put
FetchWoken ==
    /\ SchedRunning
    /\ fpc = "f_wait"
    /\ fetch_queue > 0
    /\ fpc' = "f_query"
    /\ fetch_queue' = fetch_queue - 1
    /\ UNCHANGED <<tasks, max_concurrent_tasks, task_processing_queue,
                   shutdown_event, loop_stopped, fbatch, ppc>>
    /\ UNCHANGED <<poolVars, httpVars, apiVars, db_failed, notified>>

\* l.149: the query answers. With no queued job the for loop is skipped and
\* the empty batch is put on task_processing_queue (l.156)
FetchQuery ==
    /\ SchedRunning
    /\ fpc = "f_query"
    /\ \E b \in get_queued_tasks(tasks, max_concurrent_tasks) :
         IF b = <<>>
           THEN /\ task_processing_queue' = Append(task_processing_queue, b)
                /\ fpc' = "f_loop"
                /\ fbatch' = <<>>
           ELSE /\ fpc' = "f_mark"
                /\ fbatch' = b
                /\ UNCHANGED task_processing_queue
    /\ db_failed' = FALSE
    /\ UNCHANGED <<tasks, max_concurrent_tasks, fetch_queue, shutdown_event,
                   loop_stopped, ppc>>
    /\ UNCHANGED <<poolVars, httpVars, apiVars, notified>>

\* l.149 raises (the database is unreachable; database_manager.py l.103-105
\* logs and re-raises): l.157 logs, l.161 task_done
FetchQueryError ==
    /\ SchedRunning
    /\ fpc = "f_query"
    /\ fpc' = "f_loop"
    /\ db_failed' = TRUE
    /\ UNCHANGED <<tasks, max_concurrent_tasks, fetch_queue, task_processing_queue,
                   shutdown_event, loop_stopped, fbatch, ppc>>
    /\ UNCHANGED <<poolVars, httpVars, apiVars, notified>>

\* l.150-154 for the first job of the batch: update_task is a plain function
\* returning a dict or None, so after it has run (committed, or rolled back
\* when `dbok` is false) `await` raises TypeError; l.157 logs it, the batch
\* is not put on task_processing_queue, and the loop starts over
FetchMark ==
    /\ SchedRunning
    /\ fpc = "f_mark"
    /\ \E dbok \in BOOLEAN :
         /\ tasks' = IF dbok THEN fetch_mark(tasks, Head(fbatch)) ELSE tasks
         /\ db_failed' = ~dbok
    /\ fpc' = "f_loop"
    /\ fbatch' = <<>>
    /\ UNCHANGED <<max_concurrent_tasks, fetch_queue, task_processing_queue,
                   shutdown_event, loop_stopped, ppc>>
    /\ UNCHANGED <<poolVars, httpVars, apiVars, notified>>

\* ======================================================== AsyncHttpClient
BackoffChoices == {1, 2}        \* base_backoff, in seconds
HttpStatuses == {200, 404, 500} \* status codes the server answers with
BodyChars == {" ", "x"}         \* a whitespace and a non-whitespace character

RECURSIVE StringsUpTo(_, _)
\* the strings over the characters C of length at most n
StringsUpTo(C, n) ==
    IF n = 0 THEN {<<>>}
    ELSE LET shorter == StringsUpTo(C, n - 1) IN
         shorter \cup {Append(w, c) : w \in shorter, c \in C}

Bodies == StringsUpTo(BodyChars, MaxBodyLen)

RECURSIVE lstrip(_)
lstrip(text) ==
    IF text # <<>> /\ Head(text) = " " THEN lstrip(Tail(text)) ELSE text

RECURSIVE rstrip(_)
rstrip(text) ==
    IF text # <<>> /\ text[Len(text)] = " "
      THEN rstrip(SubSeq(text, 1, Len(text) - 1))
      ELSE text

\* str.strip()
strip(text) == rstrip(lstrip(text))

\* l.94: `not response.text.strip() or not response.content`
EmptyBody(response) == strip(response.body) = <<>> \/ response.body = <<>>

\* the `headers` argument of a fetch_data call: not given, given with the
\* value of the client's self.headers, or given with another value
HeaderChoices == {"absent", "default", "custom"}

\* no fetch_data call has been made; `kwargs` is what the call's kwargs hold
\* under "headers", `sent` the headers of each request sent
IdleCall == [pc |-> "idle", attempt |-> 0, backoff |-> 0, requests |-> 0,
             responses |-> <<>>, sleeps |-> <<>>, raised |-> "none",
             kwargs |-> "absent", sent |-> <<>>]

\* l.88-93: aclient.request(method=method, url=url,
\* headers=kwargs.pop("headers", self.headers), **kwargs): the pop takes the
\* caller's headers out of kwargs; method, url and the rest of kwargs are the
\* same objects on every attempt
fetch_data_request(c) ==
    [c EXCEPT !.pc = "h_request", !.requests = @ + 1, !.kwargs = "absent",
              !.sent = Append(@, IF c.kwargs = "absent" THEN "default"
                                                        ELSE c.kwargs)]

\* l.84-88: backoff = self.base_backoff, attempt 0, the first request is sent
\* (range(retry_limit) is empty for a limit below 1: the call returns None)
fetch_data(limit, base, headers) ==
    IF limit < 1
      THEN [IdleCall EXCEPT !.pc = "returned", !.backoff = base,
                            !.kwargs = headers]
      ELSE fetch_data_request([IdleCall EXCEPT !.backoff = base,
                                               !.kwargs = headers])

\* mutant: an empty body on the last attempt is returned to the caller
fetch_data_response_returns_last(c, limit, response) ==
    LET c1 == [c EXCEPT !.responses = Append(@, response)] IN
    IF EmptyBody(response) /\ c.attempt # limit - 1
      THEN [c1 EXCEPT !.pc = "h_sleep", !.sleeps = Append(@, c.backoff)]
      ELSE [c1 EXCEPT !.pc = "returned"]

\* l.88-103: aclient.request answered with `response` (httpx raises no
\* HTTPStatusError from request(): no raise_for_status() is called and the
\* client has no event hooks, so a response of any status arrives here)
fetch_data_response(c, limit, response) ==
    LET c1 == [c EXCEPT !.responses = Append(@, response)] IN
    IF EmptyBody(response)
      THEN IF c.attempt = limit - 1
             THEN [c1 EXCEPT !.pc = "raised", !.raised = "APIRetryExhaustedError"]
             ELSE [c1 EXCEPT !.pc = "h_sleep", !.sleeps = Append(@, c.backoff)]
      ELSE [c1 EXCEPT !.pc = "returned"]

\* l.100-102, l.85-88: the sleep is over; backoff *= 2, next attempt, next request
fetch_data_slept(c) ==
    fetch_data_request([c EXCEPT !.backoff = @ * 2, !.attempt = @ + 1])

\* mutant: a network error is retried after a backoff sleep like an empty body
fetch_data_request_error_retries(c, limit) ==
    IF c.attempt = limit - 1
      THEN [c EXCEPT !.pc = "raised", !.raised = "APIConnectionError"]
      ELSE [c EXCEPT !.pc = "h_sleep", !.sleeps = Append(@, c.backoff)]

\* l.104-106: aclient.request raised httpx.RequestError
fetch_data_request_error(c, limit) ==
    [c EXCEPT !.pc = "raised", !.raised = "APIConnectionError"]

\* a caller awaits client.fetch_data(method, url, ...)
FetchData ==
    /\ call.pc \in {"idle", "returned", "raised"}
    /\ \E headers \in HeaderChoices :
           call' = fetch_data(retry_limit, base_backoff, headers)
    /\ UNCHANGED <<retry_limit, base_backoff>>
    /\ UNCHANGED <<poolVars, schedVars, apiVars>>

\* the server answers the request that is in flight
HttpResponse(status, body) ==
    /\ call.pc = "h_request"
    /\ call' = fetch_data_response(call, retry_limit,
                                   [status |-> status, body |-> body])
    /\ UNCHANGED <<retry_limit, base_backoff>>
    /\ UNCHANGED <<poolVars, schedVars, apiVars>>

\* the request that is in flight fails at the network level
HttpRequestError ==
    /\ call.pc = "h_request"
    /\ call' = fetch_data_request_error(call, retry_limit)
    /\ UNCHANGED <<retry_limit, base_backoff>>
    /\ UNCHANGED <<poolVars, schedVars, apiVars>>

\* asyncio.sleep(backoff) is over
HttpSleepDone ==
    /\ call.pc = "h_sleep"
    /\ call' = fetch_data_slept(call)
    /\ UNCHANGED <<retry_limit, base_backoff>>
    /\ UNCHANGED <<poolVars, schedVars, apiVars>>

\* ---- CallbackService
\* mutant: a delivery that fails marks the job failed
task_callback_notification_fails(t, id) ==
    IF t[id].callback_url
      THEN [tasks |-> update_task(update_task(t, id, "status", "failed"),
                                  id, "error_message", "TypeError"),
            requests |-> 0, raised |-> "TypeError"]
      ELSE [tasks |-> t, requests |-> 0, raised |-> "none"]

\* mutant: a job without callback_url is delivered like any other
task_callback_notification_ignores_url(t, id) ==
    [tasks |-> t, requests |-> 0, raised |-> "TypeError"]

\* callback_service.py l.43-71. With a callback_url, l.48 awaits the Task (or
\* None) that the plain function get_task returned: TypeError, raised before
\* the request of l.50 is sent and before update_task_callback_status (l.61)
\* is reached; AsyncHttpClient.__aexit__ closes the client and the error
\* leaves the call. Without a callback_url the call only logs (l.68-71).
\* `requests` counts the fetch_data calls the notification made.
task_callback_notification(t, id) ==
    IF t[id].callback_url
      THEN [tasks |-> t, requests |-> 0, raised |-> "TypeError"]
      ELSE [tasks |-> t, requests |-> 0, raised |-> "none"]

\* a caller awaits task_callback_notification(task, db_manager) for a stored job
TaskCallbackNotification(j) ==
    /\ Exists(tasks, j)
    /\ LET r == task_callback_notification(tasks, j) IN
         /\ tasks' = r.tasks
         /\ notified' = notified \cup {<<j, r.raised>>}
         /\ call' = IF r.requests > 0
                      THEN fetch_data(retry_limit, base_backoff, "default")
                      ELSE call
    /\ UNCHANGED <<max_concurrent_tasks, fetch_queue, task_processing_queue,
                   shutdown_event, loop_stopped, fpc, fbatch, ppc, db_failed>>
    /\ UNCHANGED <<retry_limit, base_backoff>>
    /\ UNCHANGED <<poolVars, apiVars>>

\* ---- stop()
\* l.58: self.shutdown_event.set()
Stop ==
    /\ ~shutdown_event
    /\ shutdown_event' = TRUE
    /\ UNCHANGED <<tasks, max_concurrent_tasks, fetch_queue, task_processing_queue,
                   loop_stopped, fpc, fbatch, ppc>>
    /\ UNCHANGED <<poolVars, httpVars, apiVars, db_failed, notified>>

\* l.60: the loop.stop scheduled by call_soon_threadsafe runs; run_forever
\* returns and no coroutine of the loop is resumed again
LoopStop ==
    /\ shutdown_event
    /\ ~loop_stopped
    /\ loop_stopped' = TRUE
    /\ UNCHANGED <<tasks, max_concurrent_tasks, fetch_queue, task_processing_queue,
                   shutdown_event, fpc, fbatch, ppc>>
    /\ UNCHANGED <<poolVars, httpVars, apiVars, db_failed, notified>>

\* ---- callback write-back
\* response bodies around the cut length: position i holds the i-th character
\* of a repeating "abc"
MessageLengths == (1..3) \cup ((CallbackMessageMax - 2)..MaxMessageLen)
MessageChars == <<"a", "b", "c">>
Message(n) == [i \in 1..n |-> MessageChars[(i % 3) + 1]]

\* fetch_data has returned `response` on the first attempt
Returned(response) ==
    [IdleCall EXCEPT !.pc = "returned", !.backoff = 1, !.requests = 1,
                     !.responses = <<response>>]

\* callback_service.py l.61-66: update_task_callback_status(task_id=task.id,
\* callback_status_code=response.status_code, callback_message=response.text)
UpdateTaskCallbackStatus(j) ==
    /\ call.pc = "returned"
    /\ Exists(tasks, j)
    /\ tasks[j].callback_url
    /\ LET response == call.responses[Len(call.responses)] IN
         tasks' = update_task_callback_status(tasks, j, response.status,
                                              response.body)
    /\ UNCHANGED <<max_concurrent_tasks, fetch_queue, task_processing_queue,
                   shutdown_event, loop_stopped, fpc, fbatch, ppc, db_failed,
                   notified>>
    /\ UNCHANGED <<poolVars, httpVars, apiVars>>

\* ============================================================= API routes
\* no request has reached the routes of whisper_tasks.py
NoRequest == [op |-> "none", file_upload |-> FALSE, file_url |-> <<>>,
              task_id |-> 0, seen |-> "none", code |-> 0]

UrlChars == {"a", ":", "/", " "}  \* a letter, the two separators, a space
Urls == StringsUpTo(UrlChars, MaxUrlLen)
Letters == {"a"}
SchemeChars == Letters            \* of UrlChars, what urllib's scheme_chars holds

RECURSIVE find(_, _)
\* 1 + str.find(c): the first position of c in text, 0 when there is none
find(text, c) ==
    IF text = <<>> THEN 0
    ELSE IF Head(text) = c THEN 1
    ELSE LET i == find(Tail(text), c) IN IF i = 0 THEN 0 ELSE i + 1

\* urllib.parse.urlsplit as urlparse uses it: leading whitespace is stripped;
\* the text before the first ":" is the scheme when it is not empty, starts
\* with a letter and holds scheme characters only; a rest that starts with
\* "//" gives the netloc, up to the next "/"
urlparse(url) ==
    LET u == lstrip(url)
        i == find(u, ":")
        has_scheme == /\ i > 1
                      /\ u[1] \in Letters
                      /\ \A k \in 1..(i - 1) : u[k] \in SchemeChars
        scheme == IF has_scheme THEN SubSeq(u, 1, i - 1) ELSE <<>>
        rest == IF has_scheme THEN SubSeq(u, i + 1, Len(u)) ELSE u
        slashes == Len(rest) >= 2 /\ rest[1] = "/" /\ rest[2] = "/"
        after == SubSeq(rest, 3, Len(rest))
        d == find(after, "/")
        netloc == IF ~slashes THEN <<>>
                  ELSE IF d = 0 THEN after ELSE SubSeq(after, 1, d - 1)
    IN  [scheme |-> scheme, netloc |-> netloc]

\* mutant: the file_url is not parsed
task_create_accepts_any_url(t, file_upload, file_url) ==
    IF ~(file_upload \/ file_url # <<>>) THEN [tasks |-> t, code |-> 400]
    ELSE IF file_upload /\ file_url # <<>> THEN [tasks |-> t, code |-> 400]
    ELSE [tasks |-> t, code |-> 500]

\* whisper_tasks.py l.121-197. file_upload: whether the upload is truthy; an
\* empty file_url is "not given". After the three checks, the try block reads
\* task_data.temperature (l.159-163), a field WhisperTaskFileOption does not
\* have: AttributeError, caught at l.189 and answered 500 before
\* create_whisper_task (l.165) is called, so no row is written.
task_create(t, file_upload, file_url) ==
    IF ~(file_upload \/ file_url # <<>>) THEN [tasks |-> t, code |-> 400]
    ELSE IF file_upload /\ file_url # <<>> THEN [tasks |-> t, code |-> 400]
    ELSE IF /\ file_url # <<>>
            /\ \/ urlparse(file_url).scheme = <<>>
               \/ urlparse(file_url).netloc = <<>>
      THEN [tasks |-> t, code |-> 400]
    ELSE [tasks |-> t, code |-> 500]

\* a POST /tasks/create that has arrived and is not answered yet
Received(file_upload, file_url) ==
    [NoRequest EXCEPT !.op = "received", !.file_upload = file_upload,
                      !.file_url = file_url]

\* the route handles the POST /tasks/create that has arrived
TaskCreate ==
    /\ api.op = "received"
    /\ LET r == task_create(tasks, api.file_upload, api.file_url) IN
         /\ tasks' = r.tasks
         /\ api' = [api EXCEPT !.op = "task_create", !.code = r.code]
    /\ UNCHANGED <<max_concurrent_tasks, fetch_queue, task_processing_queue,
                   shutdown_event, loop_stopped, fpc, fbatch, ppc, db_failed,
                   notified>>
    /\ UNCHANGED <<poolVars, httpVars>>

\* whisper_tasks.py l.247-301, the try block: what it raises or returns
task_result_try(t, id) ==
    IF ~Exists(t, id) THEN [raised |-> TRUE, code |-> 404]
    ELSE IF t[id].status \in {"queued", "processing"}
      THEN [raised |-> TRUE, code |-> 202]
    ELSE IF t[id].status = "failed" THEN [raised |-> TRUE, code |-> 500]
    ELSE [raised |-> FALSE, code |-> 200]

\* l.247-310: every HTTPException the try block raises is an Exception, and
\* the only handler is `except Exception` (l.302), which raises 500
task_result(t, id) ==
    LET r == task_result_try(t, id) IN
    IF r.raised THEN 500 ELSE r.code

\* a client gets /tasks/result?task_id=j
TaskResult(j) ==
    /\ api' = [NoRequest EXCEPT !.op = "task_result", !.task_id = j,
                                !.seen = tasks[j].status,
                                !.code = task_result(tasks, j)]
    /\ UNCHANGED <<poolVars, schedVars, httpVars>>

\* ------------------------------------------------------------------ Init
\* TaskProcessor after run_loop created the two workers (l.77, l.83)
SchedStart ==
    /\ tasks = [j \in JobIds |-> NoTask]
    /\ fetch_queue = 0
    /\ task_processing_queue = <<>>
    /\ shutdown_event = FALSE
    /\ loop_stopped = FALSE
    /\ fpc = "f_loop"
    /\ fbatch = <<>>
    /\ ppc = "p_loop"
    /\ db_failed = FALSE
    /\ notified = {}

\* AsyncHttpClient() as callback_service.py l.46 constructs it (retry_limit 3,
\* base_backoff 1.0), no call made
HttpStart ==
    /\ retry_limit = 3
    /\ base_backoff = 1
    /\ call = IdleCall

ApiStart == api = NoRequest

\* the pool as constructed, before initialize_pool
PoolStart ==
    /\ pool = <<>>
    /\ current_size = 0
    /\ size_lock = FreeLock
    /\ loading_lock = FreeLock
    /\ pc = [p \in Procs |-> "idle"]
    /\ strat = [p \in Procs |-> "none"]
    /\ ctx = [p \in Procs |-> "none"]
    /\ idx = [p \in Procs |-> 0]
    /\ made = [p \in Procs |-> NoModel]
    /\ held = [p \in Procs |-> NoModel]
    /\ err = [p \in Procs |-> NoErr]
    /\ n_created = 0
    /\ destroyed = {}
    /\ init_returned = FALSE
    /\ unlocked = {}
    /\ dev = DefaultDevices

Init ==
    /\ \E g \in GpuChoices, t \in CpuThreadChoices,
          r \in 0..MaxRequested, m \in 0..MaxRequested, b \in BOOLEAN :
         /\ m <= r                      \* l.86: min_size > max_size raises
         /\ max_size = get_optimal_max_size(r, g, t, 1)
         /\ min_size = m
         /\ init_with_max_pool_size = b
         /\ ctor = Constructed("faster_whisper", g, t, r, 1)
    /\ PoolStart
    /\ SchedStart
    /\ HttpStart
    /\ ApiStart
    /\ max_concurrent_tasks = 1

Next ==
    \E p \in Procs :
        \/ InitializePool(p)
        \/ InitializePoolGranted(p)
        \/ GetModel(p)
        \/ GetModelWoken(p)
        \/ GetModelTimeout(p)
        \/ SizeLockGranted(p)
        \/ GetModelTakeNew(p)
        \/ CreateLoaded(p)
        \/ CreateFailed(p)
        \/ CreatePutWoken(p)
        \/ ReturnModel(p)
        \/ CallerContinues(p)

Spec == Init /\ [][Next]_vars

\* ------------------------------------------------------------- scheduler
\* the scheduler with the pool of the default settings
\* (AsyncModelPoolSettings: min_size 1, max_size 1, init_with_max_pool_size)
SchedInit ==
    /\ max_size = 1
    /\ min_size = 1
    /\ init_with_max_pool_size = TRUE
    /\ ctor = Constructed("faster_whisper", 0, 4, 1, 1)
    /\ PoolStart
    /\ SchedStart
    /\ HttpStart
    /\ ApiStart
    /\ max_concurrent_tasks \in 1..MaxConcurrent

SchedNext ==
    \/ \E callback_url \in BOOLEAN : CreateTask(callback_url)
    \/ \E j \in JobIds : SetOutputUrl(j)
    \/ ProcessRequest
    \/ ProcessBatch
    \/ ProcessWake
    \/ FetchRequest
    \/ FetchWoken
    \/ FetchQuery
    \/ FetchQueryError
    \/ FetchMark
    \/ Stop
    \/ LoopStop

SchedSpec == SchedInit /\ [][SchedNext]_vars

\* the scheduling the event loop guarantees: a timer that is due fires, a
\* coroutine whose await can complete is resumed, a loading thread ends
FairSpec ==
    /\ Spec
    /\ \A p \in Procs :
         /\ WF_vars(GetModelTimeout(p))
         /\ WF_vars(GetModelWoken(p))
         /\ WF_vars(GetModelTakeNew(p))
         /\ WF_vars(SizeLockGranted(p))
         /\ WF_vars(InitializePoolGranted(p))
         /\ WF_vars(CreatePutWoken(p))
         /\ WF_vars(CreateLoaded(p) \/ CreateFailed(p))

\* --------------------------------------------------------------- startup
\* a process that has not constructed the pool yet, on any host
StartupInit ==
    /\ \E g \in HostGpuChoices, t \in CpuThreadChoices :
           ctor = NotConstructed(g, t)
    /\ max_size = 0                     \* the three are unset until __init__
    /\ min_size = 0
    /\ init_with_max_pool_size = FALSE
    /\ PoolStart
    /\ SchedStart
    /\ HttpStart
    /\ ApiStart
    /\ max_concurrent_tasks = 1

\* constructor calls, and one coroutine that uses the pool once it exists
\* (main.py l.57-79: AsyncModelPool(...), then initialize_pool()); alone, it
\* finds every lock free, and nobody ends a wait of it for a queue slot
StartupNext ==
    \/ \E a \in CtorArgs : Construct(a)
    \/ \E p \in {1} :
        \/ InitializePool(p)
        \/ GetModel(p)
        \/ GetModelTimeout(p)
        \/ CreateLoaded(p)
        \/ CreateFailed(p)
        \/ ReturnModel(p)
        \/ CallerContinues(p)

StartupSpec == StartupInit /\ [][StartupNext]_vars

\* lifespan (main.py l.57-79): one AsyncModelPool(...) call, then one
\* initialize_pool() call, whose engine loads succeed or raise; no other
\* coroutine uses the pool before it returns
LifespanConstruct(a) == ~ctor.called /\ Construct(a)

LifespanInitializePool == ~init_returned /\ InitializePool(1)

LifespanNext ==
    \/ \E a \in CtorArgs : LifespanConstruct(a)
    \/ LifespanInitializePool
    \/ CreateLoaded(1)
    \/ CreateFailed(1)

LifespanSpec == StartupInit /\ [][LifespanNext]_vars

\* asyncio.to_thread ends: the engine's constructor returns or raises
LifespanFairSpec == LifespanSpec /\ WF_vars(CreateLoaded(1) \/ CreateFailed(1))

\* ------------------------------------------------------- device allocation
\* a constructed pool of either engine with any device settings, on a host
\* where a pool can be constructed; one instance is loaded and destroyed
DeviceInit ==
    /\ \E engine \in ValidEngines, g \in GpuChoices, t \in CpuThreadChoices :
           ctor = Constructed(engine, g, t, 1, 1)
    /\ max_size = 1
    /\ min_size = 1
    /\ init_with_max_pool_size = TRUE
    /\ pool = <<>>
    /\ current_size = 0
    /\ size_lock = FreeLock
    /\ loading_lock = FreeLock
    /\ pc = [p \in Procs |-> "idle"]
    /\ strat = [p \in Procs |-> "none"]
    /\ ctx = [p \in Procs |-> "none"]
    /\ idx = [p \in Procs |-> 0]
    /\ made = [p \in Procs |-> NoModel]
    /\ held = [p \in Procs |-> NoModel]
    /\ err = [p \in Procs |-> NoErr]
    /\ n_created = 0
    /\ destroyed = {}
    /\ init_returned = FALSE
    /\ unlocked = {}
    /\ \E f \in DeviceChoices, o \in DeviceChoices :
           dev = [DefaultDevices EXCEPT !.fast_whisper_device = f,
                                       !.openai_whisper_device = o]
    /\ SchedStart
    /\ HttpStart
    /\ ApiStart
    /\ max_concurrent_tasks = 1

DeviceNext == LoadInstance \/ DestroyInstance

DeviceSpec == DeviceInit /\ [][DeviceNext]_vars

\* ----------------------------------------------------------- HTTP client
\* an AsyncHttpClient with a retry_limit of at least 1 and its server
HttpInit ==
    /\ max_size = 1
    /\ min_size = 1
    /\ init_with_max_pool_size = TRUE
    /\ ctor = Constructed("faster_whisper", 0, 4, 1, 1)
    /\ PoolStart
    /\ SchedStart
    /\ ApiStart
    /\ max_concurrent_tasks = 1
    /\ retry_limit \in 1..MaxRetryLimit
    /\ base_backoff \in BackoffChoices
    /\ call = IdleCall

HttpNext ==
    \/ FetchData
    \/ \E status \in HttpStatuses, body \in Bodies : HttpResponse(status, body)
    \/ HttpRequestError
    \/ HttpSleepDone

HttpSpec == HttpInit /\ [][HttpNext]_vars

\* ------------------------------------------------------- callback write-back
\* update_task_callback_status applied to a response fetch_data returned, for
\* the jobs callers have submitted
WritebackInit ==
    /\ max_size = 1
    /\ min_size = 1
    /\ init_with_max_pool_size = TRUE
    /\ ctor = Constructed("faster_whisper", 0, 4, 1, 1)
    /\ PoolStart
    /\ SchedStart
    /\ ApiStart
    /\ max_concurrent_tasks = 1
    /\ retry_limit = 3
    /\ base_backoff = 1
    /\ \E status \in HttpStatuses, n \in MessageLengths :
           call = Returned([status |-> status, body |-> Message(n)])

WritebackNext ==
    \/ \E callback_url \in BOOLEAN : CreateTask(callback_url)
    \/ \E j \in JobIds : UpdateTaskCallbackStatus(j)

WritebackSpec == WritebackInit /\ [][WritebackNext]_vars

\* ------------------------------------------------------------- API routes
\* the scheduler together with clients that ask for results
ResultNext ==
    \/ SchedNext
    \/ \E j \in JobIds : TaskResult(j)

ResultSpec == SchedInit /\ [][ResultNext]_vars

\* one POST /tasks/create, of any file_upload and file_url, next to callers
\* of the service
SubmitInit ==
    /\ max_size = 1
    /\ min_size = 1
    /\ init_with_max_pool_size = TRUE
    /\ ctor = Constructed("faster_whisper", 0, 4, 1, 1)
    /\ PoolStart
    /\ SchedStart
    /\ HttpStart
    /\ max_concurrent_tasks = 1
    /\ \E file_upload \in BOOLEAN, file_url \in Urls :
           api = Received(file_upload, file_url)

SubmitNext ==
    \/ \E callback_url \in BOOLEAN : CreateTask(callback_url)
    \/ TaskCreate

SubmitSpec == SubmitInit /\ [][SubmitNext]_vars

\* ------------------------------------------------------------- notifier
\* the scheduler together with callers of the Callback Notifier
NotifyNext ==
    \/ SchedNext
    \/ \E j \in JobIds : TaskCallbackNotification(j)

NotifySpec == SchedInit /\ [][NotifyNext]_vars

\* the scheduler's event loop resumes a worker whose await can complete, the
\* database answers a call, a due sleep ends, and the loop.stop that stop()
\* scheduled runs; submissions and stop() itself are up to the environment
SchedFairSpec ==
    /\ SchedSpec
    /\ WF_vars(ProcessRequest)
    /\ WF_vars(ProcessBatch)
    /\ WF_vars(ProcessWake)
    /\ WF_vars(FetchRequest)
    /\ WF_vars(FetchWoken)
    /\ WF_vars(FetchQuery \/ FetchQueryError)
    /\ WF_vars(FetchMark)
    /\ WF_vars(LoopStop)

\* ================================================================= claims
InPool(m) == \E i \in 1..Len(pool) : pool[i] = m
Leased == {p \in Procs : pc[p] = "holding"}
Created == 1..n_created
\* instances no coroutine and no queue refers to, that were never destroyed
Leaked ==
    {m \in Created : /\ ~InPool(m)
                     /\ m \notin destroyed
                     /\ \A p \in Procs : held[p] # m /\ made[p] # m}

\* C1: no instance is held by two callers of get_model at once: between the
\* get_model that handed it out and the return_model of that caller, no other
\* get_model returns it
C1_NoDoubleLease ==
    \A p, q \in Procs :
        (p # q /\ pc[p] = "holding" /\ pc[q] = "holding") => held[p] # held[q]

\* two callers hold instances at the same time
C1_Witness ==
    \E p, q \in Procs : p # q /\ pc[p] = "holding" /\ pc[q] = "holding"

\* C2: current_size never exceeds max_size
C2_SizeWithinCapacity == current_size <= max_size

\* C3: the number of leased instances never exceeds current_size
C3_LeasedWithinSize == Cardinality(Leased) <= current_size

\* C4: a get_model call that waits (finite timeout) eventually returns an
\* instance, returns, or raises
C4_GetModelTerminates ==
    \A p \in Procs :
        (pc[p] = "g_wait") ~> (pc[p] \in {"holding", "got_none", "raised"})

\* C5: the instance a timed-out get_model("existing") call creates below
\* capacity is the one returned to that caller: while the call has not
\* returned, no other caller holds it
C5_CreatedGoesToCaller ==
    \A p, q \in Procs :
        (ctx[p] = "get" /\ made[p] # NoModel /\ pc[q] = "holding")
            => held[q] # made[p]

\* C6: a get_model("existing") call that reaches the capacity check after its
\* wait timed out, with current_size = max_size, raises RuntimeError and
\* leaves current_size and the idle queue as they were
C6_TimeoutCheck(p) ==
    /\ strat[p] = "existing"
    /\ \/ pc[p] = "g_wait" /\ LockFree(size_lock)
       \/ pc[p] = "g_lock" /\ LockGrantedTo(size_lock, p)
    /\ pc'[p] \notin {"g_wait", "g_lock", "holding"}

C7_DynamicDelivers ==
    /\ \A p \in Procs : pc[p] # "got_none"
    /\ Leaked = {}

\* C8: return_model with the idle queue full leaves the queue as it is,
\* destroys the instance and lowers current_size by exactly one, and the
\* counter does not go below zero
C8_ReturnOnFull(p) ==
    /\ pc[p] = "holding"
    /\ pc'[p] # "holding"
    /\ Len(pool) >= max_size

C8_FullReturnDestroys ==
    [][\A p \in Procs :
         /\ C8_ReturnOnFull(p)
              => /\ pool' = pool
                 /\ held[p] \in destroyed'
                 /\ pc'[p] \in {"idle", "d_lock"}
                 /\ pc'[p] = "idle" => /\ current_size' = current_size - 1
                                       /\ current_size' >= 0
                 /\ pc'[p] = "d_lock" => current_size' = current_size
         /\ (pc[p] = "d_lock" /\ pc'[p] # "d_lock")
              => /\ pool' = pool
                 /\ current_size' = current_size - 1
                 /\ current_size' >= 0]_vars

\* an instance was destroyed by a return on a full idle queue
C8_Witness ==
    /\ destroyed # {}
    /\ Len(pool) >= max_size
    /\ \A m \in destroyed : ~InPool(m)

\* C9: a job's status only moves queued -> processing -> completed | failed
C9_Forward ==
    {<<"queued", "processing">>, <<"processing", "completed">>,
     <<"processing", "failed">>}

C10_BatchMarked ==
    \A i \in 1..Len(task_processing_queue) :
        \A k \in 1..Len(task_processing_queue[i]) :
            tasks[task_processing_queue[i][k]].status = "processing"

\* a batch with a job in it was handed to process_tasks_worker
C10_Witness ==
    \E i \in 1..Len(task_processing_queue) : task_processing_queue[i] # <<>>

\* jobs a step moves from queued to processing
Claimed ==
    {j \in JobIds : tasks[j].status = "queued" /\ tasks'[j].status = "processing"}

BatchJobs(b) == {b[i] : i \in 1..Len(b)}

\* C11: a claim cycle whose query found the batch fbatch (min(n,
\* max_concurrent_tasks) of the n queued jobs) marks every job of the batch
\* processing and no other job, unless the database rejected the write
C11_ClaimsMin ==
    [][(fpc = "f_mark" /\ fpc' # "f_mark")
          => \/ tasks' = tasks
             \/ /\ Cardinality(Claimed) = Len(fbatch)
                /\ Claimed = BatchJobs(fbatch)]_vars

\* C12: the jobs a claim cycle takes are the oldest queued jobs: no queued
\* job created before a job of the batch (ids are given in creation order) is
\* left out of the batch
C12_OldestFirst ==
    [][(fpc = "f_query" /\ fpc' = "f_mark")
          => \A j \in BatchJobs(fbatch'), i \in JobIds :
                 (i < j /\ tasks[i].status = "queued") => i \in BatchJobs(fbatch')]_vars

\* C13: under fairness, every job a claim cycle marked processing eventually
\* reaches completed or failed (as long as the scheduler is not shut down)
C13_ProcessingEnds ==
    \A j \in JobIds :
        (tasks[j].status = "processing" /\ ~shutdown_event)
            ~> (tasks[j].status \in {"completed", "failed"} \/ shutdown_event)

\* C16: once stop() has set the shutdown signal no new claim cycle starts:
\* fetch_task_worker takes up no fetch request and issues no query that could
\* move a job from queued to processing
C16_NoCycleAfterSignal ==
    [][shutdown_event => (fpc' = "f_query" => fpc = "f_query")]_vars

\* C17: stop() lets a job that is in flight (claimed, not yet completed or
\* failed) finish before the scheduler's event loop ends
C17_InFlightFinishes ==
    loop_stopped => \A j \in JobIds : tasks[j].status # "processing"

C21_SkipsWithoutUrl ==
    [][\A j \in JobIds : \A r \in {"none", "TypeError"} :
          (<<j, r>> \in notified' \ notified /\ ~tasks[j].callback_url)
              => /\ r = "none"
                 /\ call' = call
                 /\ tasks'[j].callback_status_code = tasks[j].callback_status_code
                 /\ tasks'[j].callback_message = tasks[j].callback_message]_vars

\* a notification for a stored job without callback_url has returned
C21_Witness ==
    \E j \in JobIds :
        /\ Exists(tasks, j)
        /\ ~tasks[j].callback_url
        /\ notified = {<<j, "none">>}

\* ---- C22 helpers
RECURSIVE Pow2(_)
Pow2(n) == IF n = 0 THEN 1 ELSE 2 * Pow2(n - 1)

\* a body without any character / without any character but whitespace
NoBody(response) == response.body = <<>>
Blank(response) == strip(response.body) = <<>>

StatusError(status) ==
    CASE status = 404 -> "APINotFoundError"
      [] status = 503 -> "APIUnavailableError"
      [] status = 408 -> "APITimeoutError"
      [] status = 401 -> "APIUnauthorizedError"
      [] status = 429 -> "APIRateLimitError"
      [] OTHER -> "APIResponseError"

\* C23: once a response with a non-2xx status has arrived, fetch_data has
\* raised the typed error of that status, after one request and no sleep
C23_StatusErrorRaised ==
    \A k \in 1..Len(call.responses) :
        call.responses[k].status \notin 200..299
            => /\ call.pc = "raised"
               /\ call.raised = StatusError(call.responses[k].status)
               /\ call.requests = 1
               /\ call.sleeps = <<>>

\* C24: when the request in flight ends without a response (a network-level
\* error), fetch_data raises APIConnectionError in that step, with no request
\* and no sleep added; the call is over, and the client's next step can only
\* be a new fetch_data call
C24_ConnectionErrorAtOnce ==
    [][/\ (call.pc = "h_request" /\ call' # call
                /\ call'.responses = call.responses)
            => /\ call'.pc = "raised"
               /\ call'.raised = "APIConnectionError"
               /\ call'.requests = call.requests
               /\ call'.sleeps = call.sleeps
       /\ (call.raised = "APIConnectionError" /\ call' # call)
            => \E headers \in HeaderChoices :
                   call' = fetch_data(retry_limit, base_backoff, headers)]_vars

\* the second attempt, made after one backoff sleep, met a network error
C24_Witness ==
    /\ call.raised = "APIConnectionError"
    /\ call.requests = 2
    /\ Len(call.sleeps) = 1
    /\ Len(call.responses) = 1

\* ---- C25 helper: the answer the claim names for a job's status
ResultCode(seen) ==
    CASE seen = "absent" -> {404}
      [] seen \in {"queued", "processing"} -> {202}
      [] seen = "completed" -> {200}
      [] OTHER -> 400..599

\* C25: task_result answers 404 for an unknown id, 202 for a queued or
\* processing job, 200 for a completed one and an error for a failed one
C25_ResultMapping ==
    api.op = "task_result" => api.code \in ResultCode(api.seen)

\* ---- C26 helper: exactly one of file_upload and file_url is given, and a
\* given file_url has a scheme and a host
ValidSubmission(file_upload, file_url) ==
    /\ file_upload # (file_url # <<>>)
    /\ file_url # <<>> => /\ urlparse(file_url).scheme # <<>>
                          /\ urlparse(file_url).netloc # <<>>

\* C26: a task_create call writes a row only for a valid submission, the row
\* is queued, and a submission that is not valid is answered 400 and writes
\* no row
C26_RejectsInvalid ==
    [][(api.op = "received" /\ api'.op = "task_create")
          => /\ ~ValidSubmission(api'.file_upload, api'.file_url)
                  => api'.code = 400 /\ tasks' = tasks
             /\ \A j \in JobIds :
                    tasks'[j] # tasks[j]
                        => /\ ValidSubmission(api'.file_upload, api'.file_url)
                           /\ tasks[j].status = "absent"
                           /\ tasks'[j].status = "queued"]_vars

\* a file_url of words without scheme and host was answered 400 while a job
\* submitted earlier is stored
C26_Witness ==
    /\ api.op = "task_create"
    /\ ~api.file_upload
    /\ api.file_url = <<"a", " ", "a">>
    /\ api.code = 400
    /\ \E j \in JobIds : Exists(tasks, j)

\* ---- C27 helpers
WrittenBack(j) == tasks[j].callback_time # NULL
ResponseBody == call.responses[Len(call.responses)].body

\* C27: after a write-back of a response, the job's callback_message is the
\* first 512 characters of the response body: never longer than 512, and the
\* whole body when the body has at most 512 characters
C27_MessageTruncated ==
    \A j \in JobIds :
        WrittenBack(j)
            => LET stored == tasks[j].callback_message IN
               /\ Len(stored) <= 512
               /\ Len(stored) <= Len(ResponseBody)
               /\ \A i \in 1..Len(stored) : stored[i] = ResponseBody[i]
               /\ Len(ResponseBody) <= 512 => stored = ResponseBody
               /\ Len(ResponseBody) > 512 => Len(stored) = 512

\* a body of 514 characters was written back as its first 512
C27_Witness ==
    \E j \in JobIds :
        /\ WrittenBack(j)
        /\ Len(ResponseBody) = 514
        /\ Len(tasks[j].callback_message) = 512

\* C28: once a construction has succeeded, max_size never changes again, and
\* a later construction raises nothing, returns the object as it is (its
\* current_size is the one before the call) and leaves current_size and the
\* idle queue unchanged
C28_ReconstructionNoOp ==
    [][ctor.initialized
          => /\ ctor'.initialized
             /\ max_size' = max_size
             /\ ctor' # ctor
                  => /\ ctor'.raised = "none"
                     /\ ctor'.returned_size = current_size
                     /\ current_size' = current_size
                     /\ pool' = pool]_vars

\* a later construction returned the pool with its instance, which is idle
C28_Witness ==
    /\ ctor.initialized
    /\ ctor.returned_size >= 1
    /\ current_size >= 1
    /\ pool # <<>>

\* C29: an engine name other than the two known ones never gets past the
\* constructor: no initialized pool has it
C29_InvalidEngineRaises ==
    ctor.engine \in (Engines \ ValidEngines) => ~ctor.initialized

\* ---- C30 helper: the capacity the claim gives for a request on a host
OptimalMaxSize(requested, accelerators, threads, per_gpu) ==
    IF accelerators = 0
      THEN IF threads <= 4 THEN 1 ELSE Min(Max(requested, 1), threads \div 2)
    ELSE IF accelerators = 1 THEN 1
    ELSE Min(Max(requested, 1), accelerators * per_gpu)

\* C30: a construction that passed the min_size/max_size test has made the
\* pool, and its capacity is the claim's value for the request, at least 1
C30_CapacityIsOptimal ==
    (ctor.called /\ ctor.raised # "ValueError")
        => /\ ctor.initialized
           /\ max_size = OptimalMaxSize(ctor.requested, ctor.num_gpus,
                                        ctor.num_cpu_threads,
                                        ctor.requested_per_gpu)
           /\ max_size >= 1

\* ---- C31 helper: the coroutines inside initialize_pool's creation loop
Initializing ==
    {p \in Procs : ctx[p] = "init" /\ pc[p] \in {"c_thread", "c_put", "c_inc"}}

\* C31: once an initialize_pool call has returned, no further call enters the
\* creation loop (so it creates nothing and changes neither current_size nor
\* the idle queue), and at most one coroutine is in that loop at a time
C31_InitializeOnce ==
    /\ Cardinality(Initializing) <= 1
    /\ init_returned => Initializing = {}

\* ---- C32 helper: initialize_pool has returned without raising, every
\* instance it created is idle in the queue and current_size counts them
InitializedWith(created) ==
    /\ init_returned
    /\ pc[1] = "idle"
    /\ err[1] = NoErr
    /\ current_size = created
    /\ pool = [i \in 1..created |-> i]

\* C32: an initialize_pool run that entered its creation loop returns, whatever
\* number of its creations failed, with the created instances in the idle
\* queue and current_size equal to their number
C32_InitSurvivesFailures ==
    (ctx[1] = "init") ~> InitializedWith(n_created)

\* C39: an initialize_pool call that has taken loading_lock returns and
\* releases it; it does not wait forever in pool.put
C39_InitTerminates ==
    (~LockFree(loading_lock)) ~> (pc[1] = "idle" /\ LockFree(loading_lock))

\* C33: a destroyed instance had the accelerator cache cleared exactly when it
\* resided on an accelerator and the pool sees exactly one accelerator
C33_CacheClearedIffSingleGpu ==
    dev.stage = "destroyed"
        => (dev.cache_cleared <=> (dev.resides = "cuda" /\ ctor.num_gpus = 1))

\* C34: every change of current_size and every enqueue to or dequeue from the
\* idle queue is made by a coroutine that holds size_lock
C34_MutationsUnderLock == unlocked = {}

\* C35: process_tasks_worker, having received an empty batch, sleeps before it
\* puts the next request on fetch_queue: the step that takes an empty batch
\* ends in the sleep and puts no request, and no request is put during the
\* sleep
C35_SleepsAfterEmptyBatch ==
    [][/\ (/\ ppc = "p_wait"
           /\ ppc' # "p_wait"
           /\ task_processing_queue # <<>>
           /\ Head(task_processing_queue) = <<>>)
          => (ppc' = "p_sleep" /\ fetch_queue' <= fetch_queue)
       /\ ppc = "p_sleep"
          => (ppc' \in {"p_sleep", "p_loop"} /\ fetch_queue' <= fetch_queue)]_vars

\* the worker sleeps after it received a batch, which was empty since no job
\* was ever submitted
C35_Witness ==
    /\ ppc = "p_sleep"
    /\ fetch_queue = 0
    /\ task_processing_queue = <<>>
    /\ \A j \in JobIds : ~Exists(tasks, j)

\* C36: fetch_queue and task_processing_queue each hold at most one item
C36_HandOffBounded ==
    /\ fetch_queue <= 1
    /\ Len(task_processing_queue) <= 1

\* a batch waits on task_processing_queue for the worker that requested it
C36_Witness ==
    /\ Len(task_processing_queue) = 1
    /\ fetch_queue = 0
    /\ ppc = "p_wait"

\* C37: every job the claim query returns to fetch_task_worker already has
\* its output_url
C37_ClaimedHasOutputUrl ==
    [][\A j \in BatchJobs(fbatch') \ BatchJobs(fbatch) : tasks[j].output_url]_vars

\* C38: a job that a step of fetch_task_worker marks processing is, when the
\* claim cycle leaves the marking loop, in the batch the cycle put on
\* task_processing_queue
C38_MarkedIsDispatched ==
    [][\A j \in Claimed :
         \/ fpc' = "f_mark"
         \/ /\ task_processing_queue' # <<>>
            /\ j \in BatchJobs(task_processing_queue'[Len(task_processing_queue')])]_vars

\* C40: every request of one fetch_data call carries the headers of the
\* call's first request
C40_RetriesRepeatRequest ==
    \A k \in 1..Len(call.sent) : call.sent[k] = call.sent[1]

====
